---- MODULE Spec2Model ----
(***************************************************************************)
(* Model of the PTY session manager (src/main/services/terminal/           *)
(* PtyManager.ts): the registry `sessions`, the id `counter`, the          *)
(* operations create / write / resize / destroy / destroyAll, and the      *)
(* data and exit handlers that create registers on each pseudo-terminal.   *)
(* The pseudo-terminal library (node-pty) is the environment: a process    *)
(* emits chunks, the library fires one data event per chunk, in order, and *)
(* one exit event when the process has exited (on its own or after a       *)
(* kill).                                                                  *)
(*                                                                         *)
(* Besides the manager the module models, each under a specification of    *)
(* its own that leaves the other parts idle: the launch descriptor create  *)
(* hands to pty.spawn (command and environment), the shell resolver and    *)
(* the agent detector the main process calls, and the renderer's           *)
(* useDebouncedSave hook.                                                  *)
(***************************************************************************)
EXTENDS Integers, Sequences, FiniteSets, TLC

VARIABLES
    counter,    \* PtyManager.counter
    sessions,   \* PtyManager.sessions: a Map, kept in insertion order
    procs,      \* the pseudo-terminal processes spawned so far, by handle
    dataLog,    \* per create call: the chunks its onData callback received
    exitLog,    \* per create call: the (exitCode, signal) pairs its onExit received
    launch,     \* one create call seen from pty.spawn: options, host, spawn arguments
    detect,     \* one detectAll call: the probes in flight and what the caller got
    timeoutRef, \* useDebouncedSave: timeoutRef.current
    valueRef,   \* useDebouncedSave: valueRef.current
    callbackRef,\* useDebouncedSave: callbackRef.current
    timers,     \* the window's timers set and neither fired nor cleared, by id
    timerSeq,   \* the id setTimeout returned last
    issued,     \* the (value, callback) pairs passed to trigger, in order
    invoked,    \* the (callback, value) invocations made, in order
    cancelledBy,\* "cancel" / "unmount" since the last trigger, else "none"
    mounted,    \* the component using the hook is mounted
    mermaid,    \* mermaid-renderer.tsx: the module-level loader and one MermaidRenderer
    agentView,  \* SettingsDialog.tsx: the state of AgentSettings and its detections
    terminal,   \* AgentTerminal.tsx: the refs and props of one mounted AgentTerminal
    tabs        \* EditorTabs.tsx: draggedIndexRef and the drag gestures on the tabs

ptyVars == <<counter, sessions, procs, dataLog, exitLog>>
debounceVars == <<timeoutRef, valueRef, callbackRef, timers, timerSeq, issued,
                  invoked, cancelledBy, mounted>>
uiVars == <<mermaid, agentView, terminal, tabs>>
coreVars == <<ptyVars, launch, detect, debounceVars>>
vars == <<coreVars, uiVars>>

-----------------------------------------------------------------------------
(* Bounds of the model *)

MaxCreate == 2      \* create calls
MaxIO == 2          \* chunks emitted, plus write and resize calls that reach a process
MaxTrigger == 3     \* trigger calls on one useDebouncedSave
MaxEffects == 3     \* runs of the render effect of one MermaidRenderer
MaxDetections == 3  \* detectAllAgents calls of one AgentSettings
MaxChunks == 3      \* handleData calls on one AgentTerminal
MaxRerender == 2    \* changes of the initialized prop of one AgentTerminal
MaxGestures == 3    \* drag gestures over one EditorTabs
NumTabs == 3        \* tabs shown by one EditorTabs

(* Program constants *)

DefaultCols == 80
DefaultRows == 24
BufferLimit == 1000     \* outputBufferRef.current.length > 1000
BufferKeep == 500       \* slice(-500)

-----------------------------------------------------------------------------
(* Inputs *)

\* An optional value is <<>> (absent) or <<v>>.
None == <<>>
Some(v) == <<v>>

\* cols / rows as passed in TerminalCreateOptions: absent, zero, negative, positive.
CreateGeometries == { <<None, Some(30)>>, <<Some(0), Some(-1)>> }

\* cols / rows as passed to resize.
ResizeGeometries == { <<0, 0>>, <<100, 30>> }

WriteData == {"in"}             \* input written by the caller
ExitPayloads == { <<0, 0>>, <<1, 15>> }   \* (exitCode, signal) of an exit event

\* What an onExit callback does with the id of its own session.
Reentries == {"none", "write", "resize", "destroy"}

CallNos == 1..MaxCreate

\* `pty-${n}`
MkId(n) == <<"pty", n>>

\* Ids a caller may pass: every id create can return, and one it never returns.
CallerIds == { MkId(n) : n \in CallNos } \cup { <<"other", 0>> }

-----------------------------------------------------------------------------
(* The Map `sessions`: a sequence of entries in insertion order *)

MapHas(m, id) == \E i \in 1..Len(m) : m[i].id = id

MapGet(m, id) == m[CHOOSE i \in 1..Len(m) : m[i].id = id]

MapKeys(m) == [i \in 1..Len(m) |-> m[i].id]

MapDelete(m, id) == SelectSeq(m, LAMBDA e : e.id # id)

MapSet(m, id, e) ==
    IF MapHas(m, id)
    THEN [i \in 1..Len(m) |-> IF m[i].id = id THEN e ELSE m[i]]
    ELSE Append(m, e)

-----------------------------------------------------------------------------
(* The pseudo-terminal (pty.IPty): what a handle records of the calls made *)
(* on it and of its process                                                *)

\* pty.spawn(shell, args, {cols, rows, ...}) followed by the registration of
\* the two handlers of create: the closures capture id, onData and onExit.
NewPty(geometry, id, onData, onExit) ==
    [ exited  |-> FALSE,          \* the exit event of the process has been fired
      kills   |-> 0,              \* kill() calls received
      input   |-> <<>>,           \* data received through write()
      geom    |-> <<geometry>>,   \* geometries received: spawn, then each resize()
      nemit   |-> 0,              \* chunks the process has produced
      nread   |-> 0,              \* how many of them have been fired as data events
      hId     |-> id,
      hOnData |-> onData,
      hOnExit |-> onExit ]

PtyWrite(ps, p, data) == [ps EXCEPT ![p].input = Append(@, data)]

PtyResize(ps, p, cols, rows) == [ps EXCEPT ![p].geom = Append(@, <<cols, rows>>)]

PtyKill(ps, p) == [ps EXCEPT ![p].kills = @ + 1]

-----------------------------------------------------------------------------
(* PtyManager, as functions of the manager's state                         *)
(* st = [sessions, procs, dataLog, exitLog, res]; res is "ok" or "throw"   *)

\* Mutant of NextCounter: the id is taken from the size of the registry.
NextCounterFromSize(c, m) == Len(m) + 1

\* ++this.counter
NextCounter(c, m) == c + 1

\* options.cols || 80, options.rows || 24: absent and 0 are falsy
OrDefault(opt, default) == IF opt = None \/ opt[1] = 0 THEN default ELSE opt[1]

SpawnGeometry(geometry) ==
    << OrDefault(geometry[1], DefaultCols), OrDefault(geometry[2], DefaultRows) >>

\* Mutant of CreateEff: a failed spawn is swallowed and the id is returned.
CreateEffSwallowing(st, n, geometry, onExit, spawnOk) ==
    IF ~spawnOk
    THEN st
    ELSE LET p == Len(st.procs) + 1
             id == MkId(n)
         IN [st EXCEPT
               !.procs = Append(@, NewPty(SpawnGeometry(geometry), id, n, onExit)),
               !.sessions = MapSet(@, id, [id |-> id, pty |-> p, onData |-> n, onExit |-> onExit])]

\* create after the id is minted: spawn, register the handlers, sessions.set
CreateEff(st, n, geometry, onExit, spawnOk) ==
    IF ~spawnOk
    THEN [st EXCEPT !.res = "throw"]
    ELSE LET p == Len(st.procs) + 1
             id == MkId(n)
         IN [st EXCEPT
               !.procs = Append(@, NewPty(SpawnGeometry(geometry), id, n, onExit)),
               !.sessions = MapSet(@, id, [id |-> id, pty |-> p, onData |-> n, onExit |-> onExit])]

\* Mutant of WriteEff: no check that the session exists; the call on the
\* missing session throws.
WriteEffUnguarded(st, id, data) ==
    IF MapHas(st.sessions, id)
    THEN [st EXCEPT !.procs = PtyWrite(@, MapGet(st.sessions, id).pty, data)]
    ELSE [st EXCEPT !.res = "throw"]

WriteEff(st, id, data) ==
    IF MapHas(st.sessions, id)
    THEN [st EXCEPT !.procs = PtyWrite(@, MapGet(st.sessions, id).pty, data)]
    ELSE st

\* Mutant of ResizeEff: the geometry is applied to every tracked session.
ResizeEffBroadcast(st, id, cols, rows) ==
    IF MapHas(st.sessions, id)
    THEN [st EXCEPT !.procs =
            [p \in DOMAIN @ |->
                IF \E i \in 1..Len(st.sessions) : st.sessions[i].pty = p
                THEN [@[p] EXCEPT !.geom = Append(@, <<cols, rows>>)]
                ELSE @[p]]]
    ELSE st

ResizeEff(st, id, cols, rows) ==
    IF MapHas(st.sessions, id)
    THEN [st EXCEPT !.procs = PtyResize(@, MapGet(st.sessions, id).pty, cols, rows)]
    ELSE st

\* Mutant of DestroyEff: the entry is left for the exit handler to remove.
DestroyEffKeepingEntry(st, id) ==
    IF MapHas(st.sessions, id)
    THEN [st EXCEPT !.procs = PtyKill(@, MapGet(st.sessions, id).pty)]
    ELSE st

\* Mutant of DestroyEff: the entry is removed and the process is not signalled.
DestroyEffWithoutKill(st, id) ==
    IF MapHas(st.sessions, id)
    THEN [st EXCEPT !.sessions = MapDelete(@, id)]
    ELSE st

DestroyEff(st, id) ==
    IF MapHas(st.sessions, id)
    THEN [st EXCEPT !.procs = PtyKill(@, MapGet(st.sessions, id).pty),
                    !.sessions = MapDelete(@, id)]
    ELSE st

\* for (const id of this.sessions.keys()) this.destroy(id): a Map iterator
\* keeps its position when the entry it is on is deleted, so the loop walks
\* the keys present at its start and skips those deleted before it reaches them.
RECURSIVE DestroyAllLoop(_, _, _)
DestroyAllLoop(st, keys, i) ==
    IF i > Len(keys)
    THEN st
    ELSE IF MapHas(st.sessions, keys[i])
         THEN DestroyAllLoop(DestroyEff(st, keys[i]), keys, i + 1)
         ELSE DestroyAllLoop(st, keys, i + 1)

\* Mutant of DestroyAllEff: the loop walks the live entries by position, so
\* each removal shifts the next entry under the position already passed.
RECURSIVE DestroyAllByPosition(_, _)
DestroyAllByPosition(st, i) ==
    IF i > Len(st.sessions)
    THEN st
    ELSE DestroyAllByPosition(DestroyEff(st, st.sessions[i].id), i + 1)

DestroyAllEffSkipping(st) == DestroyAllByPosition(st, 1)

DestroyAllEff(st) == DestroyAllLoop(st, MapKeys(st.sessions), 1)

\* Mutant of OnDataHandler: the handler calls the onData of the session
\* registered last instead of the one it was created with.
OnDataHandlerOfLatest(st, p, data) ==
    IF st.sessions = <<>>
    THEN [st EXCEPT !.dataLog[st.procs[p].hOnData] = Append(@, data)]
    ELSE [st EXCEPT !.dataLog[st.sessions[Len(st.sessions)].onData] = Append(@, data)]

\* ptyProcess.onData((data) => { onData(data); })
OnDataHandler(st, p, data) ==
    [st EXCEPT !.dataLog[st.procs[p].hOnData] = Append(@, data)]

\* The caller's onExit callback: it is told (exitCode, signal) and may call
\* back into the manager with the id of its session.
CallOnExit(st, cb, payload, id, reentry) ==
    LET told == [st EXCEPT !.exitLog[cb] = Append(@, payload)]
    IN CASE reentry = "write"   -> WriteEff(told, id, "in")
         [] reentry = "resize"  -> ResizeEff(told, id, 100, 30)
         [] reentry = "destroy" -> DestroyEff(told, id)
         [] OTHER               -> told

\* Mutant of OnExitHandler: onExit is called only for a session still tracked.
OnExitHandlerIfTracked(st, p, payload, reentry) ==
    LET h == st.procs[p]
        removed == [st EXCEPT !.sessions = MapDelete(@, h.hId)]
    IN IF h.hOnExit = None \/ ~MapHas(st.sessions, h.hId)
       THEN removed
       ELSE CallOnExit(removed, h.hOnExit[1], payload, h.hId, reentry)

\* Mutant of OnExitHandler: onExit is called before the entry is removed.
OnExitHandlerCallbackFirst(st, p, payload, reentry) ==
    LET h == st.procs[p]
        called == IF h.hOnExit = None
                  THEN st
                  ELSE CallOnExit(st, h.hOnExit[1], payload, h.hId, reentry)
    IN [called EXCEPT !.sessions = MapDelete(@, h.hId)]

\* Mutant of OnExitHandler: the entry is not removed on exit.
OnExitHandlerKeepingEntry(st, p, payload, reentry) ==
    LET h == st.procs[p]
    IN IF h.hOnExit = None
       THEN st
       ELSE CallOnExit(st, h.hOnExit[1], payload, "none", "none")

\* Mutant of OnExitHandler: the whole registry is cleared on exit.
OnExitHandlerClearing(st, p, payload, reentry) ==
    LET h == st.procs[p]
        removed == [st EXCEPT !.sessions = <<>>]
    IN IF h.hOnExit = None
       THEN removed
       ELSE CallOnExit(removed, h.hOnExit[1], payload, h.hId, reentry)

\* ptyProcess.onExit(({exitCode, signal}) => { this.sessions.delete(id); onExit?.(exitCode, signal); })
OnExitHandler(st, p, payload, reentry) ==
    LET h == st.procs[p]
        removed == [st EXCEPT !.sessions = MapDelete(@, h.hId)]
    IN IF h.hOnExit = None
       THEN removed
       ELSE CallOnExit(removed, h.hOnExit[1], payload, h.hId, reentry)

-----------------------------------------------------------------------------
(* The state machine *)

RECURSIVE Sum(_)
Sum(s) == IF s = <<>> THEN 0 ELSE Head(s) + Sum(Tail(s))

\* Chunks emitted, and write and resize calls that reached a process, so far.
TotalIO ==
    Sum([p \in DOMAIN procs |->
            procs[p].nemit + Len(procs[p].input) + (Len(procs[p].geom) - 1)])

\* The k-th chunk of output of the process of handle p. Chunks are told apart
\* by their origin and position; their content plays no part in the manager.
Chunk(p, k) == <<p, k>>

\* All the chunks the process of handle p has produced, in order.
Emitted(ps, p) == [k \in 1..ps[p].nemit |-> Chunk(p, k)]

State == [sessions |-> sessions, procs |-> procs, dataLog |-> dataLog,
          exitLog |-> exitLog, res |-> "ok"]

\* The step leaves the manager and the processes as they are in st.
Becomes(st) ==
    /\ sessions' = st.sessions
    /\ procs' = st.procs
    /\ dataLog' = st.dataLog
    /\ exitLog' = st.exitLog
    /\ UNCHANGED <<launch, detect, debounceVars, uiVars>>

\* new PtyManager()
InitPty ==
    /\ counter = 0
    /\ sessions = <<>>
    /\ procs = <<>>
    /\ dataLog = [n \in CallNos |-> <<>>]
    /\ exitLog = [n \in CallNos |-> <<>>]

\* No create call is being followed to pty.spawn.
LaunchIdle == launch = <<>>

\* No detectAll call is in flight.
DetectIdle == detect = <<>>

\* useDebouncedSave(delay) on mount: the three refs are null, no timer is set.
InitDebounce ==
    /\ timeoutRef = None
    /\ valueRef = None
    /\ callbackRef = None
    /\ timers = {}
    /\ timerSeq = 0
    /\ issued = <<>>
    /\ invoked = <<>>
    /\ cancelledBy = "none"
    /\ mounted = TRUE

\* No renderer component is mounted.
UiIdle == mermaid = <<>> /\ agentView = <<>> /\ terminal = <<>> /\ tabs = <<>>

\* The main-process services and the hook at rest.
CoreIdle == InitPty /\ LaunchIdle /\ DetectIdle /\ InitDebounce

Init == InitPty /\ LaunchIdle /\ DetectIdle /\ InitDebounce /\ UiIdle

\* create(options, onData, onExit?); the callbacks of the n-th call are named n.
Create(geometry, hasOnExit, spawnOk) ==
    /\ counter < MaxCreate
    /\ LET n == NextCounter(counter, sessions)
       IN /\ counter' = n
          /\ Becomes(CreateEff(State, n, geometry, IF hasOnExit THEN Some(n) ELSE None, spawnOk))

\* write(id, data)
Write(id, data) ==
    /\ MapHas(sessions, id) => TotalIO < MaxIO
    /\ Becomes(WriteEff(State, id, data))
    /\ UNCHANGED counter

\* resize(id, cols, rows)
Resize(id, cols, rows) ==
    /\ MapHas(sessions, id) => TotalIO < MaxIO
    /\ Becomes(ResizeEff(State, id, cols, rows))
    /\ UNCHANGED counter

\* destroy(id)
Destroy(id) ==
    /\ Becomes(DestroyEff(State, id))
    /\ UNCHANGED counter

\* destroyAll()
DestroyAll ==
    /\ Becomes(DestroyAllEff(State))
    /\ UNCHANGED counter

\* The process of handle p produces a chunk of output.
ProcEmit(p) ==
    /\ ~procs[p].exited
    /\ TotalIO < MaxIO
    /\ Becomes([State EXCEPT !.procs[p].nemit = @ + 1])
    /\ UNCHANGED counter

\* The library fires the next data event of handle p: the data handler runs.
DataEvent(p) ==
    /\ procs[p].nread < procs[p].nemit
    /\ LET fired == [State EXCEPT !.procs[p].nread = @ + 1]
       IN Becomes(OnDataHandler(fired, p, Chunk(p, procs[p].nread + 1)))
    /\ UNCHANGED counter

\* The process of handle p has terminated, on its own or after a kill, and the
\* library fires its exit event, once per process: the exit handler runs.
ExitEvent(p, payload, reentry) ==
    /\ ~procs[p].exited
    /\ LET fired == [State EXCEPT !.procs[p].exited = TRUE]
       IN Becomes(OnExitHandler(fired, p, payload, reentry))
    /\ UNCHANGED counter

\* The steps of the manager, its callers and its processes, with the geometries
\* callers pass to create and to resize drawn from the given sets.
NextWith(createGeometries, resizeGeometries) ==
    \/ \E g \in createGeometries, e \in BOOLEAN, ok \in BOOLEAN : Create(g, e, ok)
    \/ \E id \in CallerIds, d \in WriteData : Write(id, d)
    \/ \E id \in CallerIds, g \in resizeGeometries : Resize(id, g[1], g[2])
    \/ \E id \in CallerIds : Destroy(id)
    \/ DestroyAll
    \/ \E p \in DOMAIN procs : ProcEmit(p)
    \/ \E p \in DOMAIN procs : DataEvent(p)
    \/ \E p \in DOMAIN procs, x \in ExitPayloads, r \in Reentries : ExitEvent(p, x, r)

\* Callers that leave cols and rows to create's defaults and resize to a
\* positive geometry.
Next == NextWith({ <<None, None>> }, { <<100, 30>> })

Spec == Init /\ [][Next]_vars

\* Callers that pass any geometry: absent, zero, negative or positive.
NextGeometry == NextWith(CreateGeometries, ResizeGeometries)

SpecGeometry == Init /\ [][NextGeometry]_vars

-----------------------------------------------------------------------------
(* The launch descriptor: what create hands to pty.spawn                   *)
(* (PtyManager.ts lines 16-42 and 54-84), and the shell resolver it calls  *)

\* A JavaScript string or absent value used as a condition: absent and ''
\* are falsy.
TruthyString(opt) == opt # None /\ opt[1] # ""

\* An environment maps each name to <<>> (unset) or <<value>>.
EnvNames == {"FOO", "PATH", "TERM", "COLORTERM"}

\* A search path is held as the sequence of its entries: s.split(delimiter).
\* The empty string splits into one empty entry.
EmptyPath == <<"">>

HomeDir == "/home/u"

\* additionalPaths of getEnhancedPath, per platform
AdditionalPaths(platform) ==
    IF platform = "win32"
    THEN << "/home/u/AppData/Roaming/npm", "/home/u/.volta/bin", "/home/u/scoop/shims" >>
    ELSE << "/usr/local/bin", "/opt/homebrew/bin", "/opt/homebrew/sbin",
            "/home/u/.nvm/versions/node/current/bin", "/home/u/.npm-global/bin",
            "/home/u/.local/bin" >>

\* [...new Set(list)]: the first occurrence of each entry, in order
RECURSIVE Dedup(_)
Dedup(list) ==
    IF list = <<>>
    THEN <<>>
    ELSE LET front == Dedup(SubSeq(list, 1, Len(list) - 1))
             x == list[Len(list)]
         IN IF \E i \in 1..Len(front) : front[i] = x THEN front ELSE Append(front, x)

\* process.env.PATH || ''
CurrentPath(environ) ==
    IF environ["PATH"] = None \/ environ["PATH"][1] = EmptyPath
    THEN EmptyPath
    ELSE environ["PATH"][1]

\* getEnhancedPath(): reads process.env only
GetEnhancedPath(host) ==
    Dedup(AdditionalPaths(host.platform) \o CurrentPath(host.environ))

TermName == "xterm-256color"
ColorTerm == "truecolor"

\* {...a, ...b}: b's entries over a's; spreading an absent object adds nothing
Spread(a, b) == [n \in EnvNames |-> IF b # None /\ b[1][n] # None THEN b[1][n] ELSE a[n]]

\* Mutant of SpawnEnv: options.env is spread after the fixed variables.
SpawnEnvCallerLast(options, host) ==
    Spread([host.environ EXCEPT !["PATH"] = Some(GetEnhancedPath(host)),
                                !["TERM"] = Some(TermName),
                                !["COLORTERM"] = Some(ColorTerm)],
           options.env)

\* env: {...process.env, ...options.env, PATH: getEnhancedPath(), TERM, COLORTERM}
SpawnEnv(options, host) ==
    [Spread(host.environ, options.env) EXCEPT
        !["PATH"] = Some(GetEnhancedPath(host)),
        !["TERM"] = Some(TermName),
        !["COLORTERM"] = Some(ColorTerm)]

\* options.args || []: an array, even an empty one, is truthy
ArgsOrEmpty(optArgs) == IF optArgs = None THEN <<>> ELSE optArgs[1]

\* detectShell() of ./ShellDetector: the ambient default shell, read from the
\* environment on Unix-like hosts, a fixed system shell on Windows.
DetectShell(host) ==
    IF host.platform = "win32"
    THEN "powershell.exe"
    ELSE IF TruthyString(host.shellEnv) THEN host.shellEnv[1] ELSE "/bin/sh"

\* The platform default the resolver degrades to.
DefaultShellSpec(host) ==
    [shell |-> DetectShell(host),
     args |-> IF host.platform = "win32" THEN <<>> ELSE <<"-l">>]

\* Known install location and default arguments of a shell type, per platform.
KnownShells(platform) ==
    IF platform = "win32"
    THEN [powershell |-> [shell |-> "powershell.exe", args |-> <<"-NoLogo">>],
          cmd        |-> [shell |-> "cmd.exe", args |-> <<>>],
          wsl        |-> [shell |-> "wsl.exe", args |-> <<"-d", "Ubuntu">>]]
    ELSE [zsh  |-> [shell |-> "/bin/zsh", args |-> <<"-i", "-l">>],
          bash |-> [shell |-> "/bin/bash", args |-> <<"-i", "-l">>],
          fish |-> [shell |-> "/usr/bin/fish", args |-> <<"-i", "-l">>]]

\* Mutant of ResolveShellConfig: a selector that maps to nothing resolves to
\* an empty executable instead of the platform default.
ResolveShellConfigNoFallback(config, host) ==
    IF config.shellType = "custom"
    THEN [shell |-> IF config.customShellPath = None THEN "" ELSE config.customShellPath[1],
          args |-> ArgsOrEmpty(config.customShellArgs)]
    ELSE IF config.shellType \in DOMAIN KnownShells(host.platform)
            /\ config.shellType \in host.installed
         THEN KnownShells(host.platform)[config.shellType]
         ELSE [shell |-> "", args |-> <<>>]

\* shellDetector.resolveShellConfig(config): an explicit custom path verbatim,
\* else the known location of an installed shell type, else the platform default.
ResolveShellConfig(config, host) ==
    IF config.shellType = "custom" /\ TruthyString(config.customShellPath)
    THEN [shell |-> config.customShellPath[1], args |-> ArgsOrEmpty(config.customShellArgs)]
    ELSE IF config.shellType \in DOMAIN KnownShells(host.platform)
            /\ config.shellType \in host.installed
         THEN KnownShells(host.platform)[config.shellType]
         ELSE DefaultShellSpec(host)

\* Mutant of ChooseCommand: shellConfig is consulted before shell.
ChooseCommandConfigFirst(options, host) ==
    IF options.shellConfig # None
    THEN ResolveShellConfig(options.shellConfig[1], host)
    ELSE IF TruthyString(options.shell)
         THEN [shell |-> options.shell[1], args |-> ArgsOrEmpty(options.args)]
         ELSE [shell |-> DetectShell(host), args |-> ArgsOrEmpty(options.args)]

\* if (options.shell) ... else if (options.shellConfig) ... else ...
ChooseCommand(options, host) ==
    IF TruthyString(options.shell)
    THEN [shell |-> options.shell[1], args |-> ArgsOrEmpty(options.args)]
    ELSE IF options.shellConfig # None
         THEN ResolveShellConfig(options.shellConfig[1], host)
         ELSE [shell |-> DetectShell(host), args |-> ArgsOrEmpty(options.args)]

\* The arguments of pty.spawn(shell, args, {env, ...})
SpawnArguments(options, host) ==
    LET command == ChooseCommand(options, host)
    IN [shell |-> command.shell, args |-> command.args, env |-> SpawnEnv(options, host)]

(* Inputs of a launch *)

ShellConfigs ==
    { [shellType |-> "zsh", customShellPath |-> None, customShellArgs |-> None],
      [shellType |-> "fish", customShellPath |-> None, customShellArgs |-> None],
      [shellType |-> "powershell", customShellPath |-> None, customShellArgs |-> None],
      [shellType |-> "tcsh", customShellPath |-> None, customShellArgs |-> None],
      [shellType |-> "custom", customShellPath |-> Some("/opt/sh"), customShellArgs |-> Some(<<"-x">>)],
      [shellType |-> "custom", customShellPath |-> Some(""), customShellArgs |-> None],
      [shellType |-> "custom", customShellPath |-> None, customShellArgs |-> None] }

CallerEnvs ==
    { None } \cup
    { Some([FOO |-> foo, PATH |-> path, TERM |-> term, COLORTERM |-> None]) :
        foo \in {None, Some("caller")},
        path \in {None, Some(<<"/custom/bin">>)},
        term \in {None, Some("vt100")} }

LaunchOptions ==
    [ shell : {None, Some(""), Some("/usr/bin/nu")},
      shellConfig : {None} \cup { Some(c) : c \in ShellConfigs },
      args : {None, Some(<<"-c", "ls">>)},
      env : CallerEnvs ]

HostEnvirons ==
    { [FOO |-> foo, PATH |-> path, TERM |-> None, COLORTERM |-> colorterm] :
        foo \in {None, Some("inherited")},
        path \in {None, Some(EmptyPath), Some(<<"/usr/bin", "/bin", "/usr/bin">>)},
        colorterm \in {None, Some("24bit")} }

Hosts ==
    { [platform |-> "win32", shellEnv |-> None, installed |-> {"powershell"}, environ |-> e] :
        e \in HostEnvirons }
    \cup
    { [platform |-> "linux", shellEnv |-> s, installed |-> {"zsh"}, environ |-> e] :
        s \in {None, Some("/bin/zsh")}, e \in HostEnvirons }

\* A create call about to be made with some options on some host.
InitLaunch == launch \in [options : LaunchOptions, host : Hosts, spawn : {None}]

\* create up to pty.spawn: the command and the environment are computed.
SpawnCommand ==
    /\ launch # <<>>
    /\ launch.spawn = None
    /\ launch' = [launch EXCEPT !.spawn = Some(SpawnArguments(launch.options, launch.host))]
    /\ UNCHANGED <<ptyVars, detect, debounceVars, uiVars>>

NextLaunch == SpawnCommand

\* The launch alone: no session, no detection, a freshly mounted hook.
LaunchInit == InitPty /\ InitLaunch /\ DetectIdle /\ InitDebounce /\ UiIdle

SpecLaunch == LaunchInit /\ [][NextLaunch]_vars

-----------------------------------------------------------------------------
(* The agent CLI detector behind CLI_DETECT and CLI_DETECT_ONE (cli.ts):   *)
(* one probe per agent, each with its own timeout and its own fallback     *)

Agents == {"claude", "codex", "gemini"}

\* What probing an agent's command meets on the host: no such binary on the
\* search path, a binary that prints its version, one that exits with an
\* error, one that never answers.
HostAnswers == {"absent", "version", "fails", "hangs"}

VersionLine == "1.0.0"

AgentCliInfo(a, installed, version) ==
    [id |-> a, installed |-> installed, version |-> version, rejected |-> FALSE]

Uninstalled(a) == AgentCliInfo(a, FALSE, None)

\* Mutant of ProbeResult: a failed or timed-out probe rejects instead of
\* falling back to the uninstalled record.
ProbeResultRejecting(a, outcome) ==
    IF outcome = "version"
    THEN AgentCliInfo(a, TRUE, Some(VersionLine))
    ELSE IF outcome = "absent"
         THEN Uninstalled(a)
         ELSE [Uninstalled(a) EXCEPT !.rejected = TRUE]

\* Mutant of ProbeResult: a binary found on the search path counts as
\* installed although no version was read.
ProbeResultFoundIsInstalled(a, outcome) ==
    IF outcome = "version"
    THEN AgentCliInfo(a, TRUE, Some(VersionLine))
    ELSE AgentCliInfo(a, outcome # "absent", None)

\* The record of one probe: installed with the parsed version when the
\* version command answered, the uninstalled fallback otherwise.
ProbeResult(a, outcome) ==
    IF outcome = "version"
    THEN AgentCliInfo(a, TRUE, Some(VersionLine))
    ELSE Uninstalled(a)

\* The agents one call probes: all of them, or the one of detectOne.
Targets(d) == IF d.mode = "all" THEN Agents ELSE {d.target}

\* The join of the probes: it rejects when a probe rejected.
JoinRejects(d) == \E a \in Targets(d) : d.results[a][1].rejected

InitDetect ==
    \E mode \in {"all", "one"}, target \in Agents, world \in [Agents -> HostAnswers] :
        /\ mode = "all" => target = "claude"
        /\ detect = [mode |-> mode, target |-> target, world |-> world,
                     probes |-> [a \in Agents |-> "idle"],
                     results |-> [a \in Agents |-> None],
                     returned |-> None, raised |-> FALSE]

Detecting == detect # <<>>

\* detectAll / detectOne is called: the probes are started together.
DetectCall ==
    /\ Detecting
    /\ \A a \in Agents : detect.probes[a] = "idle"
    /\ detect' = [detect EXCEPT
                    !.probes = [a \in Agents |-> IF a \in Targets(detect) THEN "running" ELSE "idle"]]
    /\ UNCHANGED <<ptyVars, launch, debounceVars, uiVars>>

\* A probe ends on its own: binary absent, version printed, or an error.
ProbeSettle(a) ==
    /\ Detecting
    /\ detect.probes[a] = "running"
    /\ detect.world[a] # "hangs"
    /\ detect' = [detect EXCEPT !.probes[a] = "done",
                                !.results[a] = Some(ProbeResult(a, detect.world[a]))]
    /\ UNCHANGED <<ptyVars, launch, debounceVars, uiVars>>

\* The timeout of one probe ends it; the other probes go on.
ProbeTimeout(a) ==
    /\ Detecting
    /\ detect.probes[a] = "running"
    /\ detect.world[a] = "hangs"
    /\ detect' = [detect EXCEPT !.probes[a] = "done",
                                !.results[a] = Some(ProbeResult(a, "timeout"))]
    /\ UNCHANGED <<ptyVars, launch, debounceVars, uiVars>>

\* All probes of the call have ended: the call returns their records, or
\* rejects if one of them rejected.
DetectReturn ==
    /\ Detecting
    /\ detect.returned = None
    /\ ~detect.raised
    /\ \A a \in Targets(detect) : detect.probes[a] = "done"
    /\ detect' = IF JoinRejects(detect)
                 THEN [detect EXCEPT !.raised = TRUE]
                 ELSE [detect EXCEPT !.returned =
                          Some([a \in Targets(detect) |-> detect.results[a][1]])]
    /\ UNCHANGED <<ptyVars, launch, debounceVars, uiVars>>

NextDetect ==
    \/ DetectCall
    \/ \E a \in Agents : ProbeSettle(a)
    \/ \E a \in Agents : ProbeTimeout(a)
    \/ DetectReturn

\* Every started probe ends (by itself or by its timeout) and the join runs.
DetectInit == InitPty /\ LaunchIdle /\ InitDetect /\ InitDebounce /\ UiIdle

SpecDetect ==
    /\ DetectInit
    /\ [][NextDetect]_vars
    /\ WF_vars(NextDetect)

-----------------------------------------------------------------------------
(* useDebouncedSave (useDebouncedSave.ts): three refs and one window timer  *)

\* Values of T passed to trigger, as <<typeof, literal>>.
Values == { <<"string", "">>, <<"string", "draft">>, <<"number", "0">> }

\* A value of T used as a condition: '' and 0 are falsy.
Truthy(v) == v \notin { <<"string", "">>, <<"number", "0">> }

\* valueRef.current && callbackRef.current
RefsTruthy(d) == d.valueRef # None /\ Truthy(d.valueRef[1]) /\ d.callbackRef # None

\* clearTimeout(timeoutRef.current): an id that is not set is ignored
ClearTimeout(active, ref) == IF ref = None THEN active ELSE active \ {ref[1]}

\* callback(value): recorded with the step that made the call
Invoke(d, by) ==
    Append(d.invoked, [callback |-> d.callbackRef[1], value |-> d.valueRef[1], by |-> by])

\* The hook seen by its operations.
Hook ==
    [timeoutRef |-> timeoutRef, valueRef |-> valueRef, callbackRef |-> callbackRef,
     timers |-> timers, invoked |-> invoked]

\* trigger(value, callback), where setTimeout returns id
TriggerEff(d, value, callback, id) ==
    [d EXCEPT !.timers = ClearTimeout(d.timers, d.timeoutRef) \cup {id},
              !.valueRef = Some(value),
              !.callbackRef = Some(callback),
              !.timeoutRef = Some(id)]

\* The function trigger passed to setTimeout, run when timer id fires.
TimerEff(d, id) ==
    [d EXCEPT !.timers = d.timers \ {id},
              !.invoked = IF RefsTruthy(d) THEN Invoke(d, "timer") ELSE d.invoked,
              !.timeoutRef = None,
              !.valueRef = None,
              !.callbackRef = None]

\* Mutant of CancelEff: the timer is cleared and the refs are kept.
CancelEffClearOnly(d) ==
    [d EXCEPT !.timers = ClearTimeout(d.timers, d.timeoutRef)]

\* cancel()
CancelEff(d) ==
    [d EXCEPT !.timers = ClearTimeout(d.timers, d.timeoutRef),
              !.timeoutRef = None,
              !.valueRef = None,
              !.callbackRef = None]

\* flush()
FlushEff(d) ==
    IF d.timeoutRef # None /\ RefsTruthy(d)
    THEN [d EXCEPT !.timers = ClearTimeout(d.timers, d.timeoutRef),
                   !.invoked = Invoke(d, "flush"),
                   !.timeoutRef = None,
                   !.valueRef = None,
                   !.callbackRef = None]
    ELSE d

\* The effect cleanup run on unmount: the refs keep their values.
UnmountEff(d) ==
    [d EXCEPT !.timers = ClearTimeout(d.timers, d.timeoutRef)]

HookBecomes(d) ==
    /\ timeoutRef' = d.timeoutRef
    /\ valueRef' = d.valueRef
    /\ callbackRef' = d.callbackRef
    /\ timers' = d.timers
    /\ invoked' = d.invoked
    /\ UNCHANGED <<ptyVars, launch, detect, uiVars>>

\* trigger(value, callback) with a fresh callback, the Len(issued)+1-th
Trigger(value) ==
    /\ Len(issued) < MaxTrigger
    /\ HookBecomes(TriggerEff(Hook, value, Len(issued) + 1, timerSeq + 1))
    /\ timerSeq' = timerSeq + 1
    /\ issued' = Append(issued, value)
    /\ cancelledBy' = "none"
    /\ UNCHANGED mounted

\* delay has elapsed for a timer that is still set
TimerFire(id) ==
    /\ id \in timers
    /\ HookBecomes(TimerEff(Hook, id))
    /\ UNCHANGED <<timerSeq, issued, cancelledBy, mounted>>

Cancel ==
    /\ HookBecomes(CancelEff(Hook))
    /\ cancelledBy' = "cancel"
    /\ UNCHANGED <<timerSeq, issued, mounted>>

Flush ==
    /\ HookBecomes(FlushEff(Hook))
    /\ UNCHANGED <<timerSeq, issued, cancelledBy, mounted>>

Unmount ==
    /\ mounted
    /\ HookBecomes(UnmountEff(Hook))
    /\ mounted' = FALSE
    /\ cancelledBy' = "unmount"
    /\ UNCHANGED <<timerSeq, issued>>

NextDebounce ==
    \/ \E value \in Values : Trigger(value)
    \/ \E id \in timers : TimerFire(id)
    \/ Cancel
    \/ Flush
    \/ Unmount

SpecDebounce == Init /\ [][NextDebounce]_vars

-----------------------------------------------------------------------------
(* mermaid-renderer.tsx: the lazy loader getMermaid and the render effect   *)
(* of MermaidRenderer. The file holds two variants of both; variant 1      *)
(* keeps mermaidInstance besides mermaidPromise, variant 2 the promise only *)

Variants == {1, 2}

\* !code.trim(): the code prop is blank
Blank(code) == code = "  "

\* The (code, mermaidTheme) pairs the component is rendered with.
RenderInputs ==
    { <<"  ", "default">>, <<"graph A", "default">>, <<"graph A", "dark">>, <<"graph B", "dark">> }

\* The loader: the dynamic imports started so far with the state of each
\* ("pending", "resolved", "rejected"), the import whose promise is cached in
\* mermaidPromise, and the import whose module is kept in mermaidInstance.
\* The module an import resolves to is named by the index of the import.
NewLoader == [imports |-> <<>>, promise |-> None, instance |-> None]

\* Mutant of GetMermaidEff: every call starts an import of its own.
GetMermaidEffUncached(l, variant) ==
    [loader |-> [l EXCEPT !.imports = Append(@, "pending"),
                          !.promise = Some(Len(l.imports) + 1)],
     result |-> <<"promise", Len(l.imports) + 1>>]

\* getMermaid(): the loader afterwards and what the caller awaits, the module
\* itself or the promise of an import.
GetMermaidEff(l, variant) ==
    IF variant = 1 /\ l.instance # None
    THEN [loader |-> l, result |-> <<"module", l.instance[1]>>]
    ELSE IF l.promise = None
         THEN [loader |-> [l EXCEPT !.imports = Append(@, "pending"),
                                    !.promise = Some(Len(l.imports) + 1)],
               result |-> <<"promise", Len(l.imports) + 1>>]
         ELSE [loader |-> l, result |-> <<"promise", l.promise[1]>>]

\* The import's promise settles; variant 1 stores the module in its .then.
ImportSettleEff(l, k, ok, variant) ==
    IF ok
    THEN [l EXCEPT !.imports[k] = "resolved",
                   !.instance = IF variant = 1 THEN Some(k) ELSE @]
    ELSE [l EXCEPT !.imports[k] = "rejected"]

\* What the component shows: the svg and error states.
Shown(m) == [svg |-> m.svg, error |-> m.error]

\* Mutant of SettleEff: the result is stored whether or not the effect was
\* cleaned up.
SettleEffUnguarded(shown, r, ok) ==
    IF ok
    THEN [svg |-> Some(<<r.code, r.theme>>), error |-> None]
    ELSE [svg |-> None, error |-> Some(<<"failed", r.code>>)]

\* The end of renderDiagram after its awaits: if (!cancelled) { setSvg /
\* setError }, in the try branch (ok) or the catch branch.
SettleEff(shown, r, ok) ==
    IF r.cancelled
    THEN shown
    ELSE IF ok
         THEN [svg |-> Some(<<r.code, r.theme>>), error |-> None]
         ELSE [svg |-> None, error |-> Some(<<"failed", r.code>>)]

\* The cleanup of the effect that ran last: cancelled = true
CleanupLast(renders) ==
    IF renders = <<>>
    THEN renders
    ELSE [renders EXCEPT ![Len(renders)].cancelled = TRUE]

\* The render effect runs for (code, theme): renderDiagram up to its first await.
RunEffect(m, code, theme) ==
    LET got == GetMermaidEff(m.loader, m.variant)
        r == [code |-> code, theme |-> theme, cancelled |-> FALSE,
              phase |-> "loading", awaits |-> got.result, module |-> None,
              outcome |-> "none", late |-> FALSE]
    IN IF Blank(code)
       THEN [m EXCEPT !.code = Some(code), !.theme = theme,
                      !.svg = None, !.error = None,
                      !.renders = Append(CleanupLast(@),
                                    [r EXCEPT !.phase = "done", !.awaits = <<"none", 0>>,
                                              !.outcome = "blank"])]
       ELSE [m EXCEPT !.code = Some(code), !.theme = theme,
                      !.loader = got.loader,
                      !.renders = Append(CleanupLast(@), r)]

\* A render's settled outcome is stored and shown, or dropped; `late` notes
\* that a render started after it had settled before it.
Settled(m, i, ok) ==
    [m EXCEPT !.svg = SettleEff(Shown(m), m.renders[i], ok).svg,
              !.error = SettleEff(Shown(m), m.renders[i], ok).error,
              !.renders[i].phase = "done",
              !.renders[i].outcome = IF ok THEN "ok" ELSE "failed",
              !.renders[i].late = \E j \in DOMAIN m.renders :
                                      j > i /\ m.renders[j].phase = "done"]

InitMermaid ==
    \E variant \in Variants :
        mermaid = [variant |-> variant, loader |-> NewLoader, mounted |-> FALSE,
                   unmounted |-> FALSE, code |-> None, theme |-> "default",
                   svg |-> None, error |-> None, renders |-> <<>>]

MermaidInit == CoreIdle /\ InitMermaid /\ agentView = <<>> /\ terminal = <<>> /\ tabs = <<>>

MermaidBecomes(m) == mermaid' = m /\ UNCHANGED <<coreVars, agentView, terminal, tabs>>

\* The component mounts, or re-renders with a changed code or theme: the
\* previous effect is cleaned up and the effect runs again.
EffectRuns(code, theme) ==
    /\ ~mermaid.unmounted
    /\ Len(mermaid.renders) < MaxEffects
    /\ mermaid.mounted => <<Some(code), theme>> # <<mermaid.code, mermaid.theme>>
    /\ MermaidBecomes([RunEffect(mermaid, code, theme) EXCEPT !.mounted = TRUE])

\* The component unmounts: the last effect is cleaned up.
MermaidUnmount ==
    /\ mermaid.mounted
    /\ MermaidBecomes([mermaid EXCEPT !.mounted = FALSE, !.unmounted = TRUE,
                                      !.renders = CleanupLast(@)])

\* The dynamic import k resolves or rejects.
ImportSettles(k, ok) ==
    /\ mermaid.loader.imports[k] = "pending"
    /\ MermaidBecomes([mermaid EXCEPT !.loader = ImportSettleEff(@, k, ok, mermaid.variant)])

\* `await getMermaid()` of render i is over: with the module, mermaid.render
\* is started; with a rejection, the catch branch runs.
RenderLoaded(i) ==
    LET r == mermaid.renders[i]
        state == IF r.awaits[1] = "module"
                 THEN "resolved"
                 ELSE mermaid.loader.imports[r.awaits[2]]
    IN /\ r.phase = "loading"
       /\ state # "pending"
       /\ IF state = "resolved"
          THEN MermaidBecomes([mermaid EXCEPT !.renders[i].phase = "rendering",
                                              !.renders[i].module = Some(r.awaits[2])])
          ELSE MermaidBecomes(Settled(mermaid, i, FALSE))

\* `await mermaid.render(elementId, code)` of render i resolves or rejects.
RenderSettles(i, ok) ==
    /\ mermaid.renders[i].phase = "rendering"
    /\ MermaidBecomes(Settled(mermaid, i, ok))

NextMermaid ==
    \/ \E in \in RenderInputs : EffectRuns(in[1], in[2])
    \/ MermaidUnmount
    \/ \E k \in DOMAIN mermaid.loader.imports, ok \in BOOLEAN : ImportSettles(k, ok)
    \/ \E i \in DOMAIN mermaid.renders : RenderLoaded(i)
    \/ \E i \in DOMAIN mermaid.renders, ok \in BOOLEAN : RenderSettles(i, ok)

SpecMermaid == MermaidInit /\ [][NextMermaid]_vars

-----------------------------------------------------------------------------
(* SettingsDialog.tsx, AgentSettings: detectAllAgents and its responses     *)

\* The dependencies of detectAllAgents: customAgents and wslEnabled.
DetectConfigs ==
    [customAgents : { <<>>, <<"custom-1">> }, includeWsl : BOOLEAN]

\* result.agents of window.electronAPI.cli.detect(customAgents, {includeWsl}):
\* a record per built-in and custom agent, and a WSL record when asked for.
ResultAgents(config) ==
    << [id |-> "claude", installed |-> TRUE, environment |-> "native"] >>
    \o [k \in 1..Len(config.customAgents) |->
            [id |-> config.customAgents[k], installed |-> FALSE, environment |-> "native"]]
    \o IF config.includeWsl
       THEN << [id |-> "claude-wsl", installed |-> TRUE, environment |-> "wsl"] >>
       ELSE <<>>

\* for (const agent of result.agents) statusMap[agent.id] = agent;
\* a Record is held as the set of its values, one per key.
RECURSIVE StatusMap(_)
StatusMap(agents) ==
    IF agents = <<>>
    THEN {}
    ELSE LET last == agents[Len(agents)]
             front == StatusMap(SubSeq(agents, 1, Len(agents) - 1))
         IN { a \in front : a.id # last.id } \cup {last}

\* detectAllAgents() up to the IPC call
DetectAllAgentsEff(v, config) ==
    [v EXCEPT !.loadingAgents = {"all"},
              !.cliStatus = {},
              !.config = Some(config),
              !.detections = Append(@, [config |-> config, state |-> "pending"])]

\* .then((result) => { ...; setCliStatus(statusMap); setLoadingAgents(new Set()); })
DetectThenEff(v, i) ==
    [v EXCEPT !.cliStatus = StatusMap(ResultAgents(v.detections[i].config)),
              !.loadingAgents = {},
              !.detections[i].state = "resolved"]

\* .catch(() => { setLoadingAgents(new Set()); })
DetectCatchEff(v, i) ==
    [v EXCEPT !.loadingAgents = {},
              !.detections[i].state = "rejected"]

InitAgentView ==
    agentView = [cliStatus |-> {}, loadingAgents |-> {}, config |-> None, detections |-> <<>>]

AgentViewInit == CoreIdle /\ InitAgentView /\ mermaid = <<>> /\ terminal = <<>> /\ tabs = <<>>

AgentViewBecomes(v) == agentView' = v /\ UNCHANGED <<coreVars, mermaid, terminal, tabs>>

\* The effect on mount or on a change of customAgents / wslEnabled (refresh
\* false), or a click on the refresh button (refresh true).
DetectAllAgents(config, refresh) ==
    /\ Len(agentView.detections) < MaxDetections
    /\ IF refresh THEN agentView.config = Some(config) ELSE agentView.config # Some(config)
    /\ AgentViewBecomes(DetectAllAgentsEff(agentView, config))

\* The response of detection i arrives.
DetectResponse(i, ok) ==
    /\ agentView.detections[i].state = "pending"
    /\ AgentViewBecomes(IF ok THEN DetectThenEff(agentView, i) ELSE DetectCatchEff(agentView, i))

NextAgentView ==
    \/ \E config \in DetectConfigs, refresh \in BOOLEAN : DetectAllAgents(config, refresh)
    \/ \E i \in DOMAIN agentView.detections, ok \in BOOLEAN : DetectResponse(i, ok)

SpecAgentView == AgentViewInit /\ [][NextAgentView]_vars

-----------------------------------------------------------------------------
(* AgentTerminal.tsx: handleData on one mounted terminal                    *)

\* Lengths of the data chunks handed to handleData.
ChunkLengths == {1, 499, 501, 1001}

\* The characters of the output are told apart by their position in it: the
\* chunk of n characters received after `total` characters.
ChunkAfter(total, n) == [k \in 1..n |-> total + k]

\* s.slice(-n)
SliceLast(s, n) == IF Len(s) <= n THEN s ELSE SubSeq(s, Len(s) - n + 1, Len(s))

\* Mutant of BufferEff: the buffer is cut to its first characters.
BufferEffKeepHead(buffer, data) ==
    IF Len(buffer \o data) > BufferLimit
    THEN SubSeq(buffer \o data, 1, BufferKeep)
    ELSE buffer \o data

\* outputBufferRef.current += data; if (length > 1000) slice(-500)
BufferEff(buffer, data) ==
    IF Len(buffer \o data) > BufferLimit
    THEN SliceLast(buffer \o data, BufferKeep)
    ELSE buffer \o data

\* Mutant of InitializedEff: only the prop is tested, not the ref.
InitializedEffByProp(tm) ==
    IF ~tm.initialized
    THEN [tm EXCEPT !.hasInitialized = TRUE,
                    !.reported = Append(@, [chunk |-> tm.chunks + 1, initialized |-> tm.initialized])]
    ELSE tm

\* if (!hasInitializedRef.current && !initialized) { ...; onInitialized?.() }
InitializedEff(tm) ==
    IF ~tm.hasInitialized /\ ~tm.initialized
    THEN [tm EXCEPT !.hasInitialized = TRUE,
                    !.reported = Append(@, [chunk |-> tm.chunks + 1, initialized |-> tm.initialized])]
    ELSE tm

\* if (startTimeRef.current === null) startTimeRef.current = Date.now()
StartTimeEff(tm) ==
    IF tm.startTime = None THEN [tm EXCEPT !.startTime = Some(tm.now)] ELSE tm

\* handleData(data) at time `now`
HandleDataEff(tm, data) ==
    LET started == StartTimeEff(tm)
        marked == InitializedEff(started)
    IN [marked EXCEPT !.outputBuffer = BufferEff(@, data),
                      !.total = @ + Len(data),
                      !.chunks = @ + 1,
                      !.now = @ + 1]

\* The terminal is mounted with the initialized prop true or false.
InitTerminal ==
    \E initialized \in BOOLEAN :
        terminal = [outputBuffer |-> <<>>, startTime |-> None, hasInitialized |-> FALSE,
                    initialized |-> initialized, mountedWith |-> initialized,
                    reported |-> <<>>, total |-> 0, chunks |-> 0, rerenders |-> 0,
                    now |-> 1]

TerminalInit == CoreIdle /\ InitTerminal /\ mermaid = <<>> /\ agentView = <<>> /\ tabs = <<>>

TerminalBecomes(tm) == terminal' = tm /\ UNCHANGED <<coreVars, mermaid, agentView, tabs>>

\* A chunk of output of the agent arrives.
HandleData(n) ==
    /\ terminal.chunks < MaxChunks
    /\ TerminalBecomes(HandleDataEff(terminal, ChunkAfter(terminal.total, n)))

\* The parent renders the terminal again with another value of `initialized`.
Rerender(initialized) ==
    /\ terminal.initialized # initialized
    /\ terminal.rerenders < MaxRerender
    /\ TerminalBecomes([terminal EXCEPT !.initialized = initialized,
                                         !.rerenders = @ + 1,
                                         !.now = @ + 1])

NextTerminal ==
    \/ \E n \in ChunkLengths : HandleData(n)
    \/ \E initialized \in BOOLEAN : Rerender(initialized)

SpecTerminal == TerminalInit /\ [][NextTerminal]_vars

-----------------------------------------------------------------------------
(* EditorTabs.tsx: draggedIndexRef, handleDragStart and handleDrop          *)

\* tabs.map((tab, index) => ...)
TabIndices == 0..(NumTabs - 1)

\* handleDragStart(e, index)
HandleDragStartEff(tb, index) == [tb EXCEPT !.draggedIndex = Some(index)]

\* handleDrop(e, toIndex) during gesture number g
HandleDropEff(tb, toIndex, g) ==
    LET fromIndex == tb.draggedIndex
        called == fromIndex # None /\ fromIndex[1] # toIndex /\ tb.hasReorder
    IN [tb EXCEPT !.reorders = IF called
                               THEN Append(@, [from |-> fromIndex[1], to |-> toIndex, gesture |-> g])
                               ELSE @,
                  !.draggedIndex = None]

\* EditorTabs is rendered with or without an onTabReorder prop.
InitTabs ==
    \E hasReorder \in BOOLEAN :
        tabs = [draggedIndex |-> None, hasReorder |-> hasReorder, dragging |-> FALSE,
                gestures |-> <<>>, reorders |-> <<>>]

TabsInit == CoreIdle /\ InitTabs /\ mermaid = <<>> /\ agentView = <<>> /\ terminal = <<>>

TabsBecomes(tb) == tabs' = tb /\ UNCHANGED <<coreVars, mermaid, agentView, terminal>>

\* The user starts dragging the tab at `index`: its dragstart handler runs.
DragStart(index) ==
    /\ ~tabs.dragging
    /\ Len(tabs.gestures) < MaxGestures
    /\ TabsBecomes([HandleDragStartEff(tabs, index) EXCEPT
                       !.dragging = TRUE,
                       !.gestures = Append(@, [origin |-> "tab", index |-> index])])

\* The user starts dragging something that is not a tab (a file of the tree,
\* a file of the desktop): no handler of EditorTabs runs.
ForeignDragStart ==
    /\ ~tabs.dragging
    /\ Len(tabs.gestures) < MaxGestures
    /\ TabsBecomes([tabs EXCEPT !.dragging = TRUE,
                                !.gestures = Append(@, [origin |-> "foreign", index |-> -1])])

\* The dragged item is dropped on the tab at toIndex: its drop handler runs.
Drop(toIndex) ==
    /\ tabs.dragging
    /\ TabsBecomes([HandleDropEff(tabs, toIndex, Len(tabs.gestures)) EXCEPT !.dragging = FALSE])

\* The gesture ends without a drop on a tab (Escape, or a drop elsewhere):
\* EditorTabs registers no dragend handler.
DragEndsElsewhere ==
    /\ tabs.dragging
    /\ TabsBecomes([tabs EXCEPT !.dragging = FALSE])

NextTabs ==
    \/ \E index \in TabIndices : DragStart(index)
    \/ ForeignDragStart
    \/ \E toIndex \in TabIndices : Drop(toIndex)
    \/ DragEndsElsewhere

SpecTabs == TabsInit /\ [][NextTabs]_vars

-----------------------------------------------------------------------------
(* Vocabulary of the properties *)

Procs == DOMAIN procs

\* The id and the call number (the name of the callbacks) of a process's session.
IdOf(p) == procs[p].hId
CallOf(p) == procs[p].hOnData

\* The session of process p is in the registry.
Tracked(p) == \E i \in 1..Len(sessions) : sessions[i].pty = p

\* The create calls made so far whose spawn failed: no process carries their callbacks.
FailedCalls == { n \in 1..counter : \A p \in Procs : CallOf(p) # n }

\* The manager's state right after the library has marked p's exit event fired.
ExitFired(p) == [State EXCEPT !.procs[p].exited = TRUE]

-----------------------------------------------------------------------------
(* C1: a session created with an onExit callback has that callback invoked *)
(* exactly once when the exit event of its process has been handled, and   *)
(* not at all before, whether destroy(id) came before the exit event,      *)
(* after it, or never.                                                     *)
C1_ExactlyOneExit ==
    \A p \in Procs :
        procs[p].hOnExit # None =>
            Len(exitLog[procs[p].hOnExit[1]]) = IF procs[p].exited THEN 1 ELSE 0

\* A session destroyed first, whose process then exited and reported once.
C1_Witness ==
    \E p \in Procs :
        /\ procs[p].hOnExit # None
        /\ procs[p].kills = 1
        /\ procs[p].exited
        /\ Len(exitLog[CallOf(p)]) = 1

(* C2: destroy(id) on a tracked session sends one termination signal to    *)
(* its process and leaves id out of the registry, whether or not the       *)
(* process has exited; a second destroy(id) signals nothing, raises        *)
(* nothing and changes nothing. So no process is ever signalled twice and  *)
(* a signalled process is never tracked.                                   *)
C2_DestroyRemovesOnce ==
    /\ \A p \in Procs :
          /\ procs[p].kills <= 1
          /\ procs[p].kills = 1 => ~MapHas(sessions, IdOf(p))
    /\ \A id \in CallerIds :
          LET once == DestroyEff(State, id)
          IN /\ once.res = "ok"
             /\ ~MapHas(once.sessions, id)
             /\ MapHas(sessions, id) =>
                   LET p == MapGet(sessions, id).pty
                   IN /\ once.procs = [procs EXCEPT ![p].kills = @ + 1]
                      /\ once.sessions = MapDelete(sessions, id)
             /\ DestroyEff(once, id) = once

\* destroy has returned for a session whose process has not exited yet.
C2_Witness ==
    \E p \in Procs :
        /\ procs[p].kills = 1
        /\ ~procs[p].exited
        /\ ~MapHas(sessions, IdOf(p))

(* C3: write, resize and destroy on an id that is not in the registry      *)
(* (never created, destroyed, or exited) raise nothing, call nothing on    *)
(* any process and leave the registry as it is.                            *)
C3_UnknownIdNoOp ==
    \A id \in CallerIds :
        ~MapHas(sessions, id) =>
            /\ \A d \in WriteData : WriteEff(State, id, d) = State
            /\ \A g \in ResizeGeometries : ResizeEff(State, id, g[1], g[2]) = State
            /\ DestroyEff(State, id) = State

\* One session was destroyed and its process still runs, another has exited
\* on its own, and an id that create never returned exists besides.
C3_Witness ==
    \E p, q \in Procs :
        /\ procs[p].kills = 1 /\ ~procs[p].exited /\ ~MapHas(sessions, IdOf(p))
        /\ procs[q].kills = 0 /\ procs[q].exited /\ ~MapHas(sessions, IdOf(q))
        /\ \E id \in CallerIds : \A r \in Procs : IdOf(r) # id

(* C4: every geometry handed to a pseudo-terminal, by create or by resize, *)
(* is at least 1 column by 1 row.                                          *)
C4_GeometryAtLeastOne ==
    \A p \in Procs :
        \A i \in 1..Len(procs[p].geom) :
            procs[p].geom[i][1] >= 1 /\ procs[p].geom[i][2] >= 1

(* C5: ids are never reused: the ids create has returned are strictly      *)
(* increasing in the order of the calls, failed spawns included, so the    *)
(* next id is greater than all of them, no id re-enters the registry and   *)
(* no two tracked sessions share an id.                                    *)
C5_IdsNeverReused ==
    /\ \A p, q \in Procs : p < q => CallOf(p) < CallOf(q)
    /\ \A p \in Procs : IdOf(p) = MkId(CallOf(p)) /\ CallOf(p) <= counter
    /\ \A p \in Procs : NextCounter(counter, sessions) > CallOf(p)
    /\ \A i \in 1..Len(sessions) :
          /\ procs[sessions[i].pty].hId = sessions[i].id
          /\ \A j \in 1..Len(sessions) : sessions[i].id = sessions[j].id => i = j

\* A create after a session was destroyed: the new session is tracked under a
\* greater id while the earlier id stays out of the registry.
C5_Witness ==
    \E p, q \in Procs :
        /\ p < q
        /\ procs[p].kills = 1
        /\ ~MapHas(sessions, IdOf(p))
        /\ MapHas(sessions, IdOf(q))
        /\ CallOf(p) < CallOf(q)

(* C6: when the spawn fails, create throws, returns no id, leaves the      *)
(* registry, the processes and the callbacks' histories as they were, and  *)
(* the callbacks of that call are never invoked afterwards.                *)
C6_SpawnFailure ==
    /\ \A g \in CreateGeometries, e \in BOOLEAN :
          LET n == NextCounter(counter, sessions)
              failed == CreateEff(State, n, g, IF e THEN Some(n) ELSE None, FALSE)
          IN failed = [State EXCEPT !.res = "throw"]
    /\ \A n \in FailedCalls :
          /\ ~MapHas(sessions, MkId(n))
          /\ dataLog[n] = <<>>
          /\ exitLog[n] = <<>>

\* A spawn has failed and a session created by another call has since
\* received data and exited.
C6_Witness ==
    /\ FailedCalls # {}
    /\ \E p \in Procs : procs[p].exited /\ dataLog[CallOf(p)] # <<>>

(* C7: when the process of a tracked session exits on its own, the exit    *)
(* handler removes the id and hands the exit code and signal unchanged to  *)
(* onExit; the id is already gone when onExit runs, so a write, resize or  *)
(* destroy of that id from inside onExit does nothing.                     *)
C7_NaturalExit ==
    /\ \A p \in Procs :
          (Tracked(p) /\ ~procs[p].exited) =>
              \A x \in ExitPayloads, r \in Reentries :
                  LET fired == ExitFired(p)
                      after == OnExitHandler(fired, p, x, r)
                  IN /\ after.sessions = MapDelete(sessions, IdOf(p))
                     /\ ~MapHas(after.sessions, IdOf(p))
                     /\ after.procs = fired.procs
                     /\ after.dataLog = dataLog
                     /\ after.res = "ok"
                     /\ after.exitLog =
                           IF procs[p].hOnExit = None
                           THEN exitLog
                           ELSE [exitLog EXCEPT ![CallOf(p)] = Append(@, x)]
    /\ \A p \in Procs :
          (procs[p].exited /\ procs[p].kills = 0) =>
              /\ ~MapHas(sessions, IdOf(p))
              /\ procs[p].hOnExit # None =>
                    \E x \in ExitPayloads : exitLog[CallOf(p)] = <<x>>

\* A process that was never signalled has exited with a non-zero code and a
\* signal, and its onExit was told both.
C7_Witness ==
    \E p \in Procs :
        /\ procs[p].exited
        /\ procs[p].kills = 0
        /\ procs[p].hOnExit # None
        /\ exitLog[CallOf(p)] = << <<1, 15>> >>
        /\ ~MapHas(sessions, IdOf(p))

(* C8: destroyAll leaves the registry empty and sends the termination      *)
(* signal exactly once to each process that was tracked at the call, and   *)
(* to no other; no session is skipped.                                     *)
C8_DestroyAll ==
    LET after == DestroyAllEff(State)
    IN /\ after.sessions = <<>>
       /\ after.res = "ok"
       /\ after.procs =
             [p \in Procs |->
                 IF Tracked(p) THEN [procs[p] EXCEPT !.kills = @ + 1] ELSE procs[p]]
       /\ after.dataLog = dataLog
       /\ after.exitLog = exitLog

\* Every session of a registry of two has been signalled once and none is tracked.
C8_Witness ==
    /\ sessions = <<>>
    /\ Len(procs) >= 2
    /\ \A p \in Procs : procs[p].kills = 1 /\ ~procs[p].exited

(* C9: for two distinct tracked ids a and b, destroy(a), write(a, ..),     *)
(* resize(a, ..) and the exit of a's process leave b's registry entry,     *)
(* process and callbacks' histories as they were, and a chunk b's process  *)
(* emits afterwards is still delivered to b's onData.                      *)
C9_Untouched(st, q) ==
    /\ MapHas(st.sessions, IdOf(q))
    /\ MapGet(st.sessions, IdOf(q)) = MapGet(sessions, IdOf(q))
    /\ st.procs[q] = procs[q]
    /\ st.dataLog[CallOf(q)] = dataLog[CallOf(q)]
    /\ st.exitLog[CallOf(q)] = exitLog[CallOf(q)]
    /\ LET chunk == Chunk(q, procs[q].nread + 1)
       IN OnDataHandler(st, q, chunk).dataLog[CallOf(q)] = Append(dataLog[CallOf(q)], chunk)

C9_Independent ==
    \A p, q \in Procs :
        (p # q /\ Tracked(p) /\ Tracked(q)) =>
            /\ C9_Untouched(DestroyEff(State, IdOf(p)), q)
            /\ \A d \in WriteData : C9_Untouched(WriteEff(State, IdOf(p), d), q)
            /\ \A g \in ResizeGeometries : C9_Untouched(ResizeEff(State, IdOf(p), g[1], g[2]), q)
            /\ ~procs[p].exited =>
                  \A x \in ExitPayloads, r \in Reentries :
                      C9_Untouched(OnExitHandler(ExitFired(p), p, x, r), q)

\* One session has been resized and then destroyed; the other is tracked,
\* was neither signalled, written to nor resized, and has received data.
C9_Witness ==
    \E p, q \in Procs :
        /\ p # q
        /\ procs[p].kills = 1 /\ Len(procs[p].geom) = 2
        /\ Tracked(q)
        /\ procs[q].kills = 0 /\ procs[q].input = <<>> /\ Len(procs[q].geom) = 1
        /\ dataLog[CallOf(q)] # <<>>

(* C10: the chunks passed to a session's onData are at every moment the    *)
(* chunks its process has emitted and the library has fired, in order:     *)
(* a prefix of what the process emitted, with nothing reordered, dropped,  *)
(* duplicated or delivered to the callback of another call.                *)
C10_DataInOrder ==
    /\ \A p \in Procs :
          /\ procs[p].nread <= procs[p].nemit
          /\ dataLog[CallOf(p)] = SubSeq(Emitted(procs, p), 1, procs[p].nread)
    /\ \A n \in CallNos : (\A p \in Procs : CallOf(p) # n) => dataLog[n] = <<>>

\* Two chunks of one process were delivered while another session, created
\* later, was tracked.
C10_Witness ==
    \E p, q \in Procs :
        /\ p < q
        /\ Tracked(q)
        /\ Len(dataLog[CallOf(p)]) = 2

(* C21: a destroy(id) racing the exit notification of the same session     *)
(* results in exactly one cleanup: in either order the entry of id is      *)
(* removed by the first of the two and the second removes nothing, the     *)
(* termination signal is sent at most once, and no destroy sends it to a   *)
(* process whose exit notification has been processed.                     *)
C21_OneCleanup ==
    /\ \A p \in Procs :
          (Tracked(p) /\ ~procs[p].exited) =>
              \A x \in ExitPayloads, r \in Reentries :
                  LET id == IdOf(p)
                      destroyed == DestroyEff(State, id)
                      thenExit == OnExitHandler(
                                      [destroyed EXCEPT !.procs[p].exited = TRUE], p, x, r)
                      exit == OnExitHandler(ExitFired(p), p, x, r)
                      thenDestroy == DestroyEff(exit, id)
                  IN /\ MapHas(sessions, id)
                     /\ ~MapHas(destroyed.sessions, id)
                     /\ thenExit.sessions = destroyed.sessions
                     /\ thenExit.procs[p].kills = procs[p].kills + 1
                     /\ ~MapHas(exit.sessions, id)
                     /\ thenDestroy = exit
                     /\ thenDestroy.procs[p].kills = procs[p].kills
    /\ \A p \in Procs :
          /\ procs[p].kills <= 1
          /\ procs[p].exited =>
                /\ \A id \in CallerIds : DestroyEff(State, id).procs[p] = procs[p]
                /\ DestroyAllEff(State).procs[p] = procs[p]

\* Both orders have happened: one process was signalled and then exited, the
\* other exited on its own and was never signalled.
C21_Witness ==
    \E p, q \in Procs :
        /\ procs[p].kills = 1 /\ procs[p].exited
        /\ procs[q].kills = 0 /\ procs[q].exited
        /\ sessions = <<>>

(* C22: no process is leaked and no dead session is tracked: each registry *)
(* entry owns one process, not owned by another entry, whose exit          *)
(* notification has not been processed; every process spawned by create    *)
(* that is not in the registry has been signalled or has exited.           *)
C22_NoLeak ==
    /\ \A i \in 1..Len(sessions) :
          /\ sessions[i].pty \in Procs
          /\ ~procs[sessions[i].pty].exited
          /\ \A j \in 1..Len(sessions) : sessions[i].pty = sessions[j].pty => i = j
    /\ \A p \in Procs : ~Tracked(p) => procs[p].kills >= 1 \/ procs[p].exited

\* One session is tracked and alive; the other was destroyed and its process
\* has not exited yet.
C22_Witness ==
    \E p, q \in Procs :
        /\ Tracked(p) /\ ~procs[p].exited /\ procs[p].kills = 0
        /\ ~Tracked(q) /\ procs[q].kills = 1 /\ ~procs[q].exited

\* The ids in a registry.
Ids(m) == { m[i].id : i \in 1..Len(m) }

(* C23: the set of tracked ids changes only so: a successful create adds   *)
(* one new id, destroy and an exit notification each remove at most the id *)
(* they name; write and resize, on tracked or untracked ids, leave the     *)
(* tracked ids and the id counter as they are.                             *)
C23_RegistryFrame ==
    /\ [](/\ \A g \in CreateGeometries, e \in BOOLEAN :
               LET n == NextCounter(counter, sessions)
                   created == CreateEff(State, n, g, IF e THEN Some(n) ELSE None, TRUE)
               IN /\ MkId(n) \notin Ids(sessions)
                  /\ Ids(created.sessions) = Ids(sessions) \cup {MkId(n)}
          /\ \A id \in CallerIds :
               /\ Ids(DestroyEff(State, id).sessions) = Ids(sessions) \ {id}
               /\ \A d \in WriteData : WriteEff(State, id, d).sessions = sessions
               /\ \A g \in ResizeGeometries :
                     ResizeEff(State, id, g[1], g[2]).sessions = sessions
          /\ \A p \in Procs :
               ~procs[p].exited =>
                   \A x \in ExitPayloads, r \in Reentries :
                       Ids(OnExitHandler(ExitFired(p), p, x, r).sessions)
                           = Ids(sessions) \ {IdOf(p)})
    /\ [][ /\ Ids(sessions') \subseteq Ids(sessions) \cup {MkId(counter')}
           /\ counter' # counter => counter' = counter + 1 /\ Ids(sessions) \subseteq Ids(sessions')
           /\ ( \E p \in Procs : \/ Len(procs'[p].input) > Len(procs[p].input)
                                 \/ Len(procs'[p].geom) > Len(procs[p].geom) )
              => sessions' = sessions /\ counter' = counter ]_vars

\* A tracked session has been written to and resized while a second session,
\* created after it, has left the registry again.
C23_Witness ==
    \E p, q \in Procs :
        /\ p < q
        /\ Tracked(p) /\ procs[p].input # <<>> /\ Len(procs[p].geom) = 2
        /\ ~Tracked(q)
        /\ counter = 2

(* C24: once destroy(id) has removed id from the registry, the onData      *)
(* callback registered for id is not invoked again, also when the killed   *)
(* process has output that is fired as a data event before its exit.      *)
C24_NoDataAfterDestroy ==
    \A p \in Procs :
        (procs[p].kills >= 1 /\ ~Tracked(p) /\ procs[p].nread < procs[p].nemit) =>
            OnDataHandler(State, p, Chunk(p, procs[p].nread + 1)).dataLog = dataLog

-----------------------------------------------------------------------------
(* Properties of the launch descriptor *)

Spawned == launch # <<>> /\ launch.spawn # None
SpawnedCommand == [shell |-> launch.spawn[1].shell, args |-> launch.spawn[1].args]
Range(s) == { s[i] : i \in 1..Len(s) }
NoDuplicates(s) == \A i, j \in 1..Len(s) : s[i] = s[j] => i = j
FirstIndex(s, x) == CHOOSE i \in 1..Len(s) : s[i] = x /\ \A j \in 1..(i - 1) : s[j] # x

\* C11 as stated: the command is chosen by precedence, where options.shell
\* counts as given whenever the caller supplies it: a supplied shell is
\* spawned verbatim with options.args (or no arguments); otherwise a supplied
\* shellConfig is resolved; otherwise the ambient default shell is spawned.
C11_PrecedenceAnyShell ==
    Spawned =>
        LET o == launch.options
        IN /\ o.shell # None =>
                SpawnedCommand = [shell |-> o.shell[1], args |-> ArgsOrEmpty(o.args)]
           /\ o.shell = None /\ o.shellConfig # None =>
                SpawnedCommand = ResolveShellConfig(o.shellConfig[1], launch.host)
           /\ o.shell = None /\ o.shellConfig = None =>
                SpawnedCommand.shell = DetectShell(launch.host)

\* C11 amended: the same precedence, where options.shell counts as given only
\* when it is a non-empty string; an empty-string shell is treated as absent
\* and the choice falls through to shellConfig, then to the default shell.
C11_Precedence ==
    Spawned =>
        LET o == launch.options
        IN /\ TruthyString(o.shell) =>
                SpawnedCommand = [shell |-> o.shell[1], args |-> ArgsOrEmpty(o.args)]
           /\ ~TruthyString(o.shell) /\ o.shellConfig # None =>
                SpawnedCommand = ResolveShellConfig(o.shellConfig[1], launch.host)
           /\ ~TruthyString(o.shell) /\ o.shellConfig = None =>
                SpawnedCommand.shell = DetectShell(launch.host)

C11_Witness ==
    /\ Spawned
    /\ launch.options.shell = Some("/usr/bin/nu")
    /\ launch.options.shellConfig # None
    /\ launch.options.args = None
    /\ SpawnedCommand = [shell |-> "/usr/bin/nu", args |-> <<>>]

\* Flags by which an argument vector asks for a login shell.
LoginFlags == {"-l", "--login", "-il", "-li"}

\* C12: on a Unix-like host, a create call with no shell, no shellConfig and
\* no args spawns the ambient default shell with an argument vector that
\* requests an interactive login shell.
C12_DefaultIsLoginShell ==
    ( /\ Spawned
      /\ launch.host.platform # "win32"
      /\ launch.options.shell = None
      /\ launch.options.shellConfig = None
      /\ launch.options.args = None )
    => /\ SpawnedCommand.shell = DetectShell(launch.host)
       /\ Range(SpawnedCommand.args) \cap LoginFlags # {}

\* C13: the spawned environment is the inherited one overlaid by options.env:
\* every variable other than PATH, TERM and COLORTERM has the caller's value
\* when the caller supplies one and the inherited value otherwise; TERM and
\* COLORTERM always have their fixed values.
C13_EnvOverlay ==
    Spawned =>
        LET o == launch.options
            env == launch.spawn[1].env
        IN /\ \A n \in EnvNames \ {"PATH", "TERM", "COLORTERM"} :
                env[n] = IF o.env # None /\ o.env[1][n] # None
                         THEN o.env[1][n]
                         ELSE launch.host.environ[n]
           /\ env["TERM"] = Some("xterm-256color")
           /\ env["COLORTERM"] = Some("truecolor")

C13_Witness ==
    /\ Spawned
    /\ launch.options.env # None
    /\ launch.options.env[1]["TERM"] = Some("vt100")
    /\ launch.options.env[1]["FOO"] = Some("caller")
    /\ launch.host.environ["FOO"] = Some("inherited")
    /\ launch.host.environ["COLORTERM"] = Some("24bit")
    /\ launch.spawn[1].env["FOO"] = Some("caller")

\* The search path of the merged environment: the caller's PATH when
\* options.env supplies one, else the inherited PATH.
MergedPath ==
    IF launch.options.env # None /\ launch.options.env[1]["PATH"] # None
    THEN launch.options.env[1]["PATH"][1]
    ELSE CurrentPath(launch.host.environ)

\* C14: the spawned search path is the well-known directories in declared
\* order, followed by the entries of the merged environment's search path
\* (the caller's PATH when supplied, else the inherited one) in their
\* relative order; no entry is lost and none appears twice.
C14_SearchPath ==
    Spawned =>
        LET result == launch.spawn[1].env["PATH"][1]
            wellKnown == AdditionalPaths(launch.host.platform)
        IN /\ Len(result) >= Len(wellKnown)
           /\ SubSeq(result, 1, Len(wellKnown)) = wellKnown
           /\ Range(result) = Range(wellKnown) \cup Range(MergedPath)
           /\ NoDuplicates(result)
           /\ \A i, j \in (Len(wellKnown) + 1)..Len(result) :
                i < j => FirstIndex(MergedPath, result[i]) < FirstIndex(MergedPath, result[j])

\* C17: resolveShellConfig is total: for every selector, also one of an
\* unknown type or of a shell that is not installed, it returns a command
\* with a non-empty executable, the platform default when nothing else fits.
C17_ResolveTotal ==
    launch # <<>> =>
        /\ \A c \in ShellConfigs :
              LET r == ResolveShellConfig(c, launch.host)
              IN /\ r.shell # ""
                 /\ ( c.shellType \notin launch.host.installed
                      /\ ~TruthyString(c.customShellPath) )
                    => r = DefaultShellSpec(launch.host)
        /\ ( Spawned /\ ~TruthyString(launch.options.shell)
             /\ launch.options.shellConfig # None )
           => SpawnedCommand.shell # ""

C17_Witness ==
    /\ Spawned
    /\ launch.options.shell = None
    /\ launch.options.shellConfig # None
    /\ launch.options.shellConfig[1].shellType = "tcsh"
    /\ SpawnedCommand = DefaultShellSpec(launch.host)
    /\ SpawnedCommand.shell = "/bin/sh"

-----------------------------------------------------------------------------
(* Properties of the agent CLI detector *)

DetectReturned == Detecting /\ detect.returned # None

\* C15: detectAll isolates probe failures: whatever each agent's probe meets
\* (no binary, an error, no answer at all), the call raises nothing, it
\* completes, an agent whose probe failed, timed out or hung is reported as
\* not installed, and every agent's record depends on its own probe only.
C15_Isolation ==
    /\ [](Detecting => ~detect.raised)
    /\ [](DetectReturned =>
            \A a \in Targets(detect) :
                /\ detect.returned[1][a].id = a
                /\ detect.world[a] \in {"fails", "hangs"} => ~detect.returned[1][a].installed
                /\ detect.returned[1][a] =
                      IF detect.world[a] = "version"
                      THEN AgentCliInfo(a, TRUE, Some("1.0.0"))
                      ELSE AgentCliInfo(a, FALSE, None))
    /\ (Detecting => <>DetectReturned)

C15_Witness ==
    /\ DetectReturned
    /\ detect.mode = "all"
    /\ detect.world = [a \in Agents |-> IF a = "claude" THEN "version"
                                        ELSE IF a = "codex" THEN "hangs" ELSE "fails"]
    /\ detect.returned[1]["claude"].installed
    /\ ~detect.returned[1]["codex"].installed

\* C16: a returned record is installed only when a probe read a version; in
\* particular detectOne of an agent with no binary on the search path returns
\* installed = false, no version, and raises nothing.
C16_InstalledNeedsVersion ==
    /\ Detecting => ~detect.raised
    /\ DetectReturned =>
        \A a \in Targets(detect) :
            LET info == detect.returned[1][a]
            IN /\ info.installed => info.version # None /\ detect.world[a] = "version"
               /\ info.version = None => ~info.installed
               /\ detect.world[a] = "absent" => info = Uninstalled(a)

C16_Witness ==
    /\ DetectReturned
    /\ detect.mode = "one"
    /\ detect.target = "claude"
    /\ detect.world["claude"] = "absent"
    /\ detect.returned[1]["claude"] = [id |-> "claude", installed |-> FALSE,
                                       version |-> None, rejected |-> FALSE]

-----------------------------------------------------------------------------
(* Properties of useDebouncedSave *)

\* An action is pending: the timer of the last trigger is set, it has neither
\* fired nor been cleared.
Pending == timeoutRef # None /\ timeoutRef[1] \in timers
LastIssued(by) == [callback |-> Len(issued), value |-> issued[Len(issued)], by |-> by]

\* C18: trigger debounces with last value wins: for every value, also '' and
\* 0, when the delay elapses after the last trigger its callback is invoked
\* exactly once with its value, and no earlier (value, callback) pair is.
C18_LastValueWins ==
    /\ Cardinality(timers) <= 1
    /\ \A id \in timers :
          LET d == TimerEff(Hook, id)
          IN /\ d.invoked = Append(invoked, LastIssued("timer"))
             /\ d.timers = {}
             /\ FlushEff(d).invoked = d.invoked

\* C19: whenever an action is pending, for every pending value, flush()
\* invokes the pending callback with that value exactly once, clears the
\* pending state, and the timer never invokes it afterwards; flush() with
\* nothing pending invokes nothing.
C19_FlushRunsPending ==
    LET d == FlushEff(Hook)
    IN /\ Pending =>
            /\ d.invoked = Append(invoked, LastIssued("flush"))
            /\ d.timers = {}
            /\ d.timeoutRef = None /\ d.valueRef = None /\ d.callbackRef = None
       /\ ~Pending => d.invoked = invoked

-----------------------------------------------------------------------------
(* Properties of mermaid-renderer.tsx *)

Renders == DOMAIN mermaid.renders
AllSettled == \A i \in Renders : mermaid.renders[i].phase = "done"

\* What the last render, once settled, should have left on screen.
OutcomeShown(r) ==
    CASE r.outcome = "ok"     -> [svg |-> Some(<<r.code, r.theme>>), error |-> None]
      [] r.outcome = "failed" -> [svg |-> None, error |-> Some(<<"failed", r.code>>)]
      [] OTHER                -> [svg |-> None, error |-> None]

\* C25: a render whose effect has been cleaned up never sets svg or error
\* when it resolves or rejects; so while the component is mounted and every
\* render started has settled, svg and error are the outcome of the render
\* for the latest (code, theme), whatever order the renders settled in.
C25_NoStaleResult ==
    mermaid # <<>> =>
        /\ \A i \in Renders :
              (mermaid.renders[i].cancelled /\ mermaid.renders[i].phase # "done") =>
                  \A ok \in BOOLEAN :
                      SettleEff(Shown(mermaid), mermaid.renders[i], ok) = Shown(mermaid)
        /\ (mermaid.mounted /\ AllSettled /\ Renders # {}) =>
              Shown(mermaid) = OutcomeShown(mermaid.renders[Len(mermaid.renders)])

\* An earlier render settled after the later one, whose svg is shown.
C25_Witness ==
    /\ mermaid # <<>>
    /\ mermaid.mounted
    /\ Len(mermaid.renders) = 2
    /\ AllSettled
    /\ mermaid.renders[1].outcome = "ok"
    /\ mermaid.renders[2].outcome = "ok"
    /\ mermaid.renders[1].late
    /\ mermaid.svg = Some(<<mermaid.renders[2].code, mermaid.renders[2].theme>>)

\* C27: the library is loaded at most once: whatever number of getMermaid
\* calls are made, also while the first load is pending, at most one dynamic
\* import is started and every call that resolves gets the same module.
C27_LoadedOnce ==
    mermaid # <<>> =>
        /\ Len(mermaid.loader.imports) <= 1
        /\ \A i, j \in Renders :
              (mermaid.renders[i].module # None /\ mermaid.renders[j].module # None) =>
                  mermaid.renders[i].module = mermaid.renders[j].module
        /\ mermaid.loader.imports # <<>> =>
              LET again == GetMermaidEff(mermaid.loader, mermaid.variant)
              IN /\ again.loader = mermaid.loader
                 /\ again.result[2] = 1

\* Two renders called getMermaid while the one import was pending and both
\* went on with its module.
C27_Witness ==
    /\ mermaid # <<>>
    /\ Len(mermaid.renders) >= 2
    /\ mermaid.renders[1].awaits = <<"promise", 1>>
    /\ mermaid.renders[2].awaits = <<"promise", 1>>
    /\ mermaid.renders[1].module = Some(1)
    /\ mermaid.renders[2].module = Some(1)
    /\ mermaid.variant = 1

-----------------------------------------------------------------------------
(* Properties of AgentSettings *)

(* C26: when a detection is started while an earlier one is in flight,     *)
(* then once all have settled cliStatus holds the records returned by the  *)
(* detection started last, whatever order the responses arrived in.        *)
C26_LatestDetectionWins ==
    agentView # <<>> =>
        LET ds == agentView.detections
        IN ( /\ ds # <<>>
             /\ \A i \in DOMAIN ds : ds[i].state # "pending"
             /\ ds[Len(ds)].state = "resolved" )
           => agentView.cliStatus = StatusMap(ResultAgents(ds[Len(ds)].config))

-----------------------------------------------------------------------------
(* Properties of AgentTerminal *)

Min(a, b) == IF a < b THEN a ELSE b

(* C28: after every handleData call, for chunks of any length, the buffer  *)
(* is a suffix of all the output received so far, it is at most 1000       *)
(* characters long, and it holds at least the last min(500, total)         *)
(* characters.                                                             *)
C28_BufferBounded ==
    terminal # <<>> =>
        LET buffer == terminal.outputBuffer
            total == terminal.total
        IN /\ Len(buffer) <= total
           /\ \A i \in 1..Len(buffer) : buffer[i] = total - Len(buffer) + i
           /\ Len(buffer) <= 1000
           /\ Len(buffer) >= Min(500, total)

\* The buffer was cut to 500 characters by a long chunk and has grown back to
\* exactly 1000 with the next two.
C28_Witness ==
    /\ terminal # <<>>
    /\ terminal.chunks = 3
    /\ terminal.total = 1501
    /\ Len(terminal.outputBuffer) = 1000
    /\ terminal.outputBuffer[1] = 502

(* C30 as stated: onInitialized is invoked at most once, only on a data    *)
(* chunk received while the initialized prop is false, and never when the  *)
(* terminal was mounted with initialized true; the start time is set on    *)
(* the first chunk and not reset by later ones.                            *)
C30_InitializedOnceNeverIfMountedTrue ==
    /\ [](terminal # <<>> =>
            /\ Len(terminal.reported) <= 1
            /\ \A k \in DOMAIN terminal.reported : ~terminal.reported[k].initialized
            /\ terminal.mountedWith => terminal.reported = <<>>
            /\ terminal.startTime # None <=> terminal.chunks >= 1)
    /\ [][terminal.startTime # None => terminal'.startTime = terminal.startTime]_vars

(* C30 amended: onInitialized is invoked at most once, only on a data      *)
(* chunk received while the initialized prop is false; a terminal mounted  *)
(* with initialized true invokes it only after a re-render has lowered the *)
(* prop to false; the start time is set on the first chunk and not reset.  *)
C30_InitializedOnce ==
    /\ [](terminal # <<>> =>
            /\ Len(terminal.reported) <= 1
            /\ \A k \in DOMAIN terminal.reported : ~terminal.reported[k].initialized
            /\ terminal.startTime # None <=> terminal.chunks >= 1
            /\ \A n \in ChunkLengths :
                  LET after == HandleDataEff(terminal, ChunkAfter(terminal.total, n))
                  IN /\ terminal.initialized => after.reported = terminal.reported
                     /\ terminal.reported # <<>> => after.reported = terminal.reported)
    /\ [][terminal.startTime # None => terminal'.startTime = terminal.startTime]_vars

\* Three chunks arrived while the prop stayed false: one report, made on the
\* first chunk.
C30_Witness ==
    /\ terminal # <<>>
    /\ terminal.chunks = 3
    /\ ~terminal.mountedWith
    /\ ~terminal.initialized
    /\ terminal.now = 4
    /\ terminal.reported = << [chunk |-> 1, initialized |-> FALSE] >>
    /\ terminal.startTime = Some(1)

-----------------------------------------------------------------------------
(* Properties of EditorTabs *)

(* C29: onTabReorder(from, to) is invoked only by a drop that ends a drag  *)
(* gesture begun by dragstart on the tab at `from`, with from # to, and at *)
(* most once per dragstart; a gesture that ends without a drop on a tab    *)
(* leaves no dragged index behind, so a later drop that had no dragstart   *)
(* of its own triggers no reorder.                                         *)
C29_ReorderOnlyOwnDrag ==
    tabs # <<>> =>
        /\ \A k \in DOMAIN tabs.reorders :
              LET r == tabs.reorders[k]
              IN /\ r.from # r.to
                 /\ tabs.gestures[r.gesture] = [origin |-> "tab", index |-> r.from]
                 /\ \A j \in DOMAIN tabs.reorders : tabs.reorders[j].gesture = r.gesture => j = k
        /\ ~tabs.dragging => tabs.draggedIndex = None

====
